---- MODULE Spec2Model ----
(***************************************************************************)
(* Model of streamlit_app.py: the timed booking engine (APIBookingCore,    *)
(* start_pre_process, wait_until) and the Streamlit handlers that start,   *)
(* stop and watch it (run_booking, stop_booking, check_queue_and_rerun).   *)
(*                                                                         *)
(* Time is the integer number of seconds on one clock `now`, read both as  *)
(* datetime.now(KST) and as time.monotonic().  Text is modelled as a       *)
(* sequence of one-character strings where the code inspects characters    *)
(* (tee times), and as an opaque string where it only compares or parses   *)
(* whole values (selectbox options, form fields).                          *)
(*                                                                         *)
(* message_queue holds the messages that report how a run ended (all       *)
(* UI_ERROR puts and the UI_LOG lines for acquired / exhausted / test /    *)
(* no candidates) and the stop click; the progress UI_LOG lines, which     *)
(* check_queue_and_rerun only copies to the display, are left out.         *)
(***************************************************************************)
EXTENDS Integers, Sequences, FiniteSets, TLC

\* ------------------------------------------------------------------ bounds
MaxRuns == 2
MaxClock == 660
MaxGateClock == 1500
MaxJumps == 1

\* -------------------------------------------------------- program constants
MAX_WAIT_SECONDS == 420
PRE_FETCH_LEAD == 60
LOGIN_MAX_RETRIES == 3
RESERVATION_MAX_RETRIES == 3
TIMES_TO_ATTEMPT == 5
KEEPALIVE_PERIOD == 60

Runs == 1..MaxRuns
TickSteps == {60}
CoarseTickSteps == {480}

\* ------------------------------------------------------------ text helpers
Digits == {"0", "1", "2", "3", "4", "5", "6", "7", "8", "9"}

DigitVal(c) ==
    CASE c = "0" -> 0 [] c = "1" -> 1 [] c = "2" -> 2 [] c = "3" -> 3
      [] c = "4" -> 4 [] c = "5" -> 5 [] c = "6" -> 6 [] c = "7" -> 7
      [] c = "8" -> 8 [] c = "9" -> 9 [] OTHER -> 0

RECURSIVE RemoveChar(_, _)
RemoveChar(s, ch) ==
    IF s = <<>> THEN <<>>
    ELSE IF Head(s) = ch THEN RemoveChar(Tail(s), ch)
    ELSE <<Head(s)>> \o RemoveChar(Tail(s), ch)

RECURSIVE LStrip(_)
LStrip(s) == IF s # <<>> /\ Head(s) = " " THEN LStrip(Tail(s)) ELSE s

RECURSIVE RStrip(_)
RStrip(s) ==
    IF s # <<>> /\ s[Len(s)] = " " THEN RStrip(SubSeq(s, 1, Len(s) - 1)) ELSE s

Strip(s) == RStrip(LStrip(s))

AllDigits(s) == \A k \in 1..Len(s) : s[k] \in Digits

\* 'HH:MM' -> 'HHMM'; three digits get a leading zero; anything else "0000"
format_time_for_api(time_str) ==
    LET t == RemoveChar(Strip(time_str), ":")
    IN  IF AllDigits(t) /\ Len(t) = 4 THEN t
        ELSE IF AllDigits(t) /\ Len(t) = 3 THEN <<"0">> \o t
        ELSE <<"0", "0", "0", "0">>

\* 'HHMM' -> 'HH:MM'; anything else unchanged
format_time_for_display(time_str) ==
    LET t == RemoveChar(Strip(time_str), ":")
    IN  IF AllDigits(t) /\ Len(t) = 4
        THEN SubSeq(t, 1, 2) \o <<":">> \o SubSeq(t, 3, 4)
        ELSE t

RECURSIVE IntOf(_)
IntOf(s) == IF s = <<>> THEN 0 ELSE 10 * IntOf(SubSeq(s, 1, Len(s) - 1)) + DigitVal(s[Len(s)])

\* Python's <= on str, for strings of digits
RECURSIVE StrLeq(_, _)
StrLeq(a, b) ==
    IF a = <<>> THEN TRUE
    ELSE IF b = <<>> THEN FALSE
    ELSE IF Head(a) # Head(b) THEN DigitVal(Head(a)) < DigitVal(Head(b))
    ELSE StrLeq(Tail(a), Tail(b))

\* ------------------------------------------------------- slots, discovery
Cos == {"A", "B", "C", "D"}
cos_values == <<"A", "B", "C", "D">>

course_detail_mapping(cos) ==
    CASE cos = "A" -> "ChampionOUT" [] cos = "B" -> "ChampionIN"
      [] cos = "C" -> "MasterOUT" [] cos = "D" -> "MasterIN" [] OTHER -> "Unknown"

PartOf(cos) == IF cos \in {"A", "C"} THEN "1" ELSE "2"

Str4(a, b, c, d) == <<a, b, c, d>>

\* The rows the remote service holds for each partition query (getTeeList).
TeeRows(cos) ==
    CASE cos = "A" -> << [BK_TIME |-> Str4("0","7","1","0"), BK_COS |-> "A", BK_PART |-> "1"],
                         [BK_TIME |-> Str4("0","8","5","0"), BK_COS |-> "A", BK_PART |-> "1"],
                         [BK_TIME |-> Str4("0","8","0","0"), BK_COS |-> "A", BK_PART |-> "1"] >>
      [] cos = "B" -> << [BK_TIME |-> Str4("0","7","4","0"), BK_COS |-> "B", BK_PART |-> "2"],
                         [BK_TIME |-> Str4("0","8","2","0"), BK_COS |-> "B", BK_PART |-> "2"] >>
      [] cos = "C" -> << [BK_TIME |-> Str4("0","8","5","0"), BK_COS |-> "C", BK_PART |-> "1"],
                         [BK_TIME |-> Str4("0","7","2","0"), BK_COS |-> "C", BK_PART |-> "1"] >>
      [] OTHER     -> << [BK_TIME |-> Str4("0","9","3","0"), BK_COS |-> "D", BK_PART |-> "2"],
                         [BK_TIME |-> Str4("0","8","5","0"), BK_COS |-> "C", BK_PART |-> "1"] >>

\* One worker's result: the tuples built from the rows, or [] once both
\* attempts ended in a RequestException.
fetch_tee_list(cos, outcome) ==
    IF outcome = "rows"
    THEN [k \in 1..Len(TeeRows(cos)) |->
            [BK_TIME |-> TeeRows(cos)[k].BK_TIME, BK_COS |-> TeeRows(cos)[k].BK_COS,
             BK_PART |-> TeeRows(cos)[k].BK_PART,
             course_nm |-> course_detail_mapping(cos), co_div |-> "611"]]
    ELSE <<>>

\* mutant: the key is the time alone
time_key_TimeOnly(t) == <<t.BK_TIME>>

time_key(t) == <<t.BK_TIME, t.BK_COS, t.BK_PART>>

RECURSIVE Dedup(_, _)
Dedup(ts, acc) ==
    IF ts = <<>> THEN acc
    ELSE IF \E k \in 1..Len(acc) : time_key(acc[k]) = time_key(Head(ts))
         THEN Dedup(Tail(ts), acc)
         ELSE Dedup(Tail(ts), Append(acc, Head(ts)))

\* mutant: only the worker that completes first is listened to
Gather_FirstOnly(order, outcome) ==
    IF order = <<>> THEN <<>> ELSE fetch_tee_list(Head(order), outcome[Head(order)])

RECURSIVE Gather(_, _)
Gather(order, outcome) ==
    IF order = <<>> THEN <<>>
    ELSE fetch_tee_list(Head(order), outcome[Head(order)]) \o Gather(Tail(order), outcome)

\* order: the partitions in the order their futures complete
get_all_available_times(order, outcome) == Dedup(Gather(order, outcome), <<>>)

\* json.loads (382) and the row accessors (384) raise what _fetch_tee_list
\* does not catch; future.result() (340) raises it again in the caller
fetch_raises(outcome) == \E c \in Cos : outcome[c] = "malformed"

\* ---------------------------------------------------------- filter and rank
course_map(target_courses) ==
    CASE target_courses = "All" -> {"A", "B", "C", "D"}
      [] target_courses = "Champion" -> {"A", "B"}
      [] target_courses = "Master" -> {"C", "D"}
      [] OTHER -> {}

SortKey(t) == IntOf(format_time_for_api(t.BK_TIME))

\* mutant: the end of the window is excluded
Keeps_EndExcluded(t, start_time_str, end_time_str, target_courses) ==
    /\ StrLeq(format_time_for_api(start_time_str), format_time_for_api(t.BK_TIME))
    /\ StrLeq(format_time_for_api(t.BK_TIME), format_time_for_api(end_time_str))
    /\ format_time_for_api(t.BK_TIME) # format_time_for_api(end_time_str)
    /\ t.BK_COS \in course_map(target_courses)

Keeps(t, start_time_str, end_time_str, target_courses) ==
    /\ StrLeq(format_time_for_api(start_time_str), format_time_for_api(t.BK_TIME))
    /\ StrLeq(format_time_for_api(t.BK_TIME), format_time_for_api(end_time_str))
    /\ t.BK_COS \in course_map(target_courses)

\* mutant: the direction is not looked at
KeepsPlace_Ascending(h, x, is_reverse) == SortKey(h) <= SortKey(x)

\* mutant: an element goes in front of the elements it ties with
KeepsPlace_Strict(h, x, is_reverse) ==
    IF is_reverse THEN SortKey(h) > SortKey(x) ELSE SortKey(h) < SortKey(x)

\* h, which came earlier, stays in front of x
KeepsPlace(h, x, is_reverse) ==
    IF is_reverse THEN SortKey(h) >= SortKey(x) ELSE SortKey(h) <= SortKey(x)

\* list.sort(key=..., reverse=is_reverse): stable in both directions
RECURSIVE InsertSorted(_, _, _)
InsertSorted(sorted, x, is_reverse) ==
    IF sorted = <<>> THEN <<x>>
    ELSE IF KeepsPlace(Head(sorted), x, is_reverse)
         THEN <<Head(sorted)>> \o InsertSorted(Tail(sorted), x, is_reverse)
         ELSE <<x>> \o sorted

RECURSIVE StableSort(_, _, _)
StableSort(ts, acc, is_reverse) ==
    IF ts = <<>> THEN acc
    ELSE StableSort(Tail(ts), InsertSorted(acc, Head(ts), is_reverse), is_reverse)

filter_and_sort_times(all_times, start_time_str, end_time_str, target_courses, is_reverse) ==
    StableSort(SelectSeq(all_times,
                         LAMBDA t : Keeps(t, start_time_str, end_time_str, target_courses)),
               <<>>, is_reverse)

\* ------------------------------------------------------------ form values
\* The selectbox options are written in Latin letters: "Champion" / "Master"
\* are the two course groups, ORDER_BOX_ASC / ORDER_BOX_DESC the two options
\* of the order selectbox (line 930), ORDER_DEFAULT the initial value of
\* order_input (line 688), which is also the literal start_pre_process
\* compares with (line 590).
ORDER_BOX_ASC == "suncha(^)"
ORDER_BOX_DESC == "yeoksun(v)"
ORDER_DEFAULT == "yeoksun (naerim)"

\* strptime(run_time_input, '%H:%M:%S'): the instant on the model clock
RunTimeValid(run_time_input) == run_time_input \in {"00:00:00", "00:02:00"}
ParseRunTime(run_time_input) == IF run_time_input = "00:02:00" THEN 120 ELSE 0

\* int(params.get('delay', 0)): raises ValueError unless a decimal literal
DelayValid(delay) == delay \in {"0", "60"}
IntOfDelay(delay) == IF delay = "60" THEN 60 ELSE 0

Form(rt, course, order, delay, test) ==
    [run_time_input |-> rt, res_start_input |-> <<"0", "7", ":", "0", "0">>,
     res_end_input |-> <<"0", "9", ":", "0", "0">>, course_input |-> course,
     order_input |-> order, delay_input |-> delay, test_mode_checkbox |-> test]

FormChoices ==
    { Form("00:00:00", "All", ORDER_DEFAULT, "0", FALSE),
      Form("00:02:00", "All", ORDER_BOX_DESC, "0", TRUE),
      Form("00:00:00", "Champion", ORDER_BOX_ASC, "60", FALSE),
      Form("00:02:00", "Master", ORDER_DEFAULT, "60", TRUE),
      Form("00:00:00", "Master", ORDER_BOX_ASC, "abc", FALSE),
      Form("9am", "All", ORDER_DEFAULT, "0", TRUE) }

\* Outcomes of the four partition queries, and completion orders of the workers
AllOutcome(o) == [c \in Cos |-> o]
DiscoveryOutcomes ==
    { AllOutcome("rows"), AllOutcome("neterr"),
      [AllOutcome("neterr") EXCEPT !["A"] = "rows"],
      [AllOutcome("rows") EXCEPT !["A"] = "neterr", !["B"] = "neterr"],
      [AllOutcome("rows") EXCEPT !["B"] = "malformed"] }
CompletionOrders == { <<"A", "B", "C", "D">>, <<"D", "C", "B", "A">> }

LoginResponses == {"success", "rejected", "neterr"}
OpenResponses == {"open", "closed", "error"}
ReservationResponses == {"0000", "9999", "neterr", "malformed"}

\* ------------------------------------------------------------------- state
VARIABLES
    now,            \* the clock, in seconds
    form,           \* st.session_state form fields
    remote,         \* the responses the remote service can give in this execution
    run_limit,      \* how many runs the user starts at most in this execution
    tick_steps,     \* the amounts by which the clock is seen to advance
    is_running, stop_event, run_id, nruns,
    message_queue,
    orch,           \* per run: the orchestrator thread (start_pre_process)
    keeper,         \* per run: the session-keeper thread
    hist,           \* per run: what the run has done so far (history)
    sel,            \* discovery and ranking applied on their own (SpecRank)
    gate            \* wait_until on a clock of milliseconds (SpecGate)

\* what no action of the threads and handlers changes
envVars == <<form, remote, run_limit, tick_steps, sel, gate>>
vars == <<now, envVars, is_running, stop_event, run_id, nruns, message_queue, orch, keeper, hist>>

\* st.session_state.inputs, as run_booking fills it from the form
InputsOf(f) ==
    [run_time |-> f.run_time_input, start_time |-> f.res_start_input,
     end_time |-> f.res_end_input, course_type |-> f.course_input,
     order |-> f.order_input, delay |-> f.delay_input,
     test_mode |-> f.test_mode_checkbox]

OrchInit ==
    [pc |-> "idle", inputs |-> InputsOf(Form("", "", "", "", FALSE)), attempt |-> 0,
     login_result |-> "none", run_datetime |-> 0, sorted_times |-> <<>>,
     start_time |-> 0, opened |-> FALSE, delay_until |-> 0, i |-> 0]

KeeperInit == [pc |-> "k_idle", sleep_start |-> 0]

HistInit ==
    [calls |-> {}, reqlog |-> <<>>, sink |-> <<>>, sawStop |-> FALSE,
     wres |-> "none", ret |-> "none", slot |-> <<>>, neterr |-> FALSE,
     flagInOpen |-> FALSE, lateCall |-> FALSE]

SelOff ==
    [pc |-> "off", outcome |-> AllOutcome("rows"), order |-> <<>>, fetched |-> <<>>,
     all_times |-> <<>>, start_time_str |-> <<>>, end_time_str |-> <<>>,
     target_courses |-> "", is_reverse |-> FALSE, result |-> <<>>, again |-> <<>>]

GateOff ==
    [pc |-> "off", clock |-> 0, target |-> 0, t0 |-> 0, called |-> FALSE,
     remaining_seconds |-> 0, sleep |-> 0, wake |-> 0, iterations |-> 0,
     slept |-> FALSE, jumps |-> 0, outcome |-> "none"]

Idle ==
    /\ now = 0
    /\ is_running = FALSE
    /\ stop_event = FALSE
    /\ run_id = 0
    /\ nruns = 0
    /\ message_queue = <<>>
    /\ orch = [r \in Runs |-> OrchInit]
    /\ keeper = [r \in Runs |-> KeeperInit]
    /\ hist = [r \in Runs |-> HistInit]

FullRemote ==
    [login |-> LoginResponses, discovery |-> DiscoveryOutcomes,
     order |-> CompletionOrders, open |-> OpenResponses,
     reserve |-> ReservationResponses]

Init ==
    /\ form \in FormChoices
    /\ remote = FullRemote
    /\ run_limit = 1
    /\ tick_steps = TickSteps
    /\ sel = SelOff
    /\ gate = GateOff
    /\ Idle

Msg(kind, tag, r) == [kind |-> kind, tag |-> tag, run |-> r]

OrchAlive(r) == orch[r].pc \notin {"idle", "done"}
KeeperAlive(r) == keeper[r].pc \notin {"k_idle", "k_done"}
InOpenWait(r) == orch[r].pc \in {"open_loop", "open_inflight"}

\* mutant: the limit is taken in minutes
SignalTimedOut_Minutes(elapsed_time) == elapsed_time > MAX_WAIT_SECONDS \div 60

\* mutant: the watch has no time limit
SignalTimedOut_Never(elapsed_time) == FALSE

SignalTimedOut(elapsed_time) == elapsed_time > MAX_WAIT_SECONDS

\* ---------------------------------------------------------- Streamlit side
\* The flag becomes set: remember which runs were watching for the open signal.
NoteFlagSet ==
    hist' = [r \in Runs |->
                IF InOpenWait(r) THEN [hist[r] EXCEPT !.flagInOpen = TRUE] ELSE hist[r]]

run_booking ==
    /\ ~is_running
    /\ nruns < run_limit
    /\ stop_event' = FALSE
    /\ message_queue' = <<>>
    /\ IF RunTimeValid(form.run_time_input)
       THEN /\ is_running' = TRUE
            /\ run_id' = nruns + 1
            /\ nruns' = nruns + 1
            /\ orch' = [orch EXCEPT ![nruns + 1] =
                           [OrchInit EXCEPT !.pc = "login", !.inputs = InputsOf(form)]]
       ELSE /\ is_running' = FALSE
            /\ run_id' = 0
            /\ UNCHANGED <<nruns, orch>>
    /\ UNCHANGED <<now, envVars, keeper, hist>>

stop_booking ==
    /\ is_running
    /\ message_queue' = Append(message_queue, Msg("UI_LOG", "stop_clicked", run_id))
    /\ stop_event' = TRUE
    /\ is_running' = FALSE
    /\ run_id' = 0
    /\ NoteFlagSet
    /\ UNCHANGED <<now, envVars, nruns, orch, keeper>>

FirstError(q) ==
    IF \E k \in 1..Len(q) : q[k].kind = "UI_ERROR"
    THEN CHOOSE k \in 1..Len(q) :
            /\ q[k].kind = "UI_ERROR"
            /\ \A j \in 1..(k - 1) : q[j].kind # "UI_ERROR"
    ELSE 0

check_queue_and_rerun ==
    /\ run_id # 0
    /\ message_queue # <<>>
    /\ LET k == FirstError(message_queue)
       IN  IF k = 0
           THEN /\ message_queue' = <<>>
                /\ UNCHANGED <<is_running, stop_event, run_id, hist>>
           ELSE /\ message_queue' = SubSeq(message_queue, k + 1, Len(message_queue))
                /\ is_running' = FALSE
                /\ stop_event' = TRUE
                /\ run_id' = 0
                /\ NoteFlagSet
    /\ UNCHANGED <<now, envVars, nruns, orch, keeper>>

\* Some thread can still tell the time: the orchestrator until its target
\* instant, while it watches for the open signal and during its pre-delay
\* (afterwards it only measures durations from a fresh reading); the session
\* keeper until its deadline.
ClockRead ==
    \E r \in Runs :
       \/ /\ orch[r].pc \in {"login", "login_inflight", "login_ret", "wait_prefetch",
                             "chk_prefetch", "discover", "discover_inflight", "wait_open"}
          /\ now < ParseRunTime(orch[r].inputs.run_time)
       \/ /\ InOpenWait(r)
          /\ ~SignalTimedOut(now - orch[r].start_time)
       \/ /\ orch[r].pc = "delay_sleep"
          /\ now < orch[r].delay_until
       \/ /\ KeeperAlive(r)
          /\ now < orch[r].run_datetime

\* Time passes.  Steps of the clock that nothing can observe are left out.
Tick ==
    /\ ClockRead
    /\ \E d \in tick_steps :
          /\ now + d <= MaxClock
          /\ now' = now + d
    /\ UNCHANGED <<envVars, is_running, stop_event, run_id, nruns, message_queue, orch, keeper, hist>>

\* ----------------------------------------------------- orchestrator thread
uiVars == <<envVars, is_running, stop_event, run_id, nruns>>

\* a message that reports how run r ended goes to the queue
Report(r, kind, tag) ==
    message_queue' = Append(message_queue, Msg(kind, tag, r))

SawStop(h) == [h EXCEPT !.sawStop = TRUE]

\* except Exception (640-646): log, UI_ERROR, thread ends
Fatal(r, h) ==
    /\ Report(r, "UI_ERROR", "fatal")
    /\ orch' = [orch EXCEPT ![r].pc = "done"]
    /\ hist' = [hist EXCEPT ![r] = [h EXCEPT !.sink = Append(@, "UI_ERROR:fatal")]]

\* mutant: the login result is not looked at
LoginSucceeded_Always(login_result) == TRUE

LoginSucceeded(login_result) == login_result = "success"

LoginAttempt(r) ==
    /\ orch[r].pc = "login"
    /\ IF orch[r].attempt >= LOGIN_MAX_RETRIES
       THEN /\ orch' = [orch EXCEPT ![r].pc = "login_ret", ![r].login_result = "fail"]
            /\ UNCHANGED hist
       ELSE IF stop_event
       THEN /\ orch' = [orch EXCEPT ![r].pc = "login_ret", ![r].login_result = "fail"]
            /\ hist' = [hist EXCEPT ![r] = SawStop(@)]
       ELSE /\ orch' = [orch EXCEPT ![r].pc = "login_inflight"]
            /\ hist' = [hist EXCEPT ![r].calls = @ \cup {"login"}]
    /\ UNCHANGED <<now, uiVars, message_queue, keeper>>

LoginResponse(r) ==
    /\ orch[r].pc = "login_inflight"
    /\ \E resp \in remote.login :
          orch' = [orch EXCEPT
                     ![r].pc = IF resp = "neterr" THEN "login" ELSE "login_ret",
                     ![r].attempt = IF resp = "neterr" THEN @ + 1 ELSE @,
                     ![r].login_result =
                         IF resp = "success" THEN "success"
                         ELSE IF resp = "rejected" THEN "fail" ELSE @]
    /\ UNCHANGED <<now, uiVars, message_queue, keeper, hist>>

AfterLogin(r) ==
    /\ orch[r].pc = "login_ret"
    /\ IF LoginSucceeded(orch[r].login_result)
       THEN LET run_datetime == ParseRunTime(orch[r].inputs.run_time)
            IN  /\ keeper' = [keeper EXCEPT ![r].pc = "k_loop"]
                /\ orch' = [orch EXCEPT
                              ![r].run_datetime = run_datetime,
                              ![r].pc = IF now < run_datetime - PRE_FETCH_LEAD
                                        THEN "wait_prefetch" ELSE "chk_prefetch"]
                /\ UNCHANGED <<message_queue, hist>>
       ELSE /\ Report(r, "UI_ERROR", "login")
            /\ orch' = [orch EXCEPT ![r].pc = "done"]
            /\ hist' = [hist EXCEPT ![r].sink = Append(@, "UI_ERROR:login")]
            /\ UNCHANGED keeper
    /\ UNCHANGED <<now, uiVars>>

WaitTarget(r) ==
    IF orch[r].pc = "wait_prefetch" THEN orch[r].run_datetime - PRE_FETCH_LEAD
    ELSE orch[r].run_datetime

\* wait_until leaves its loop: the flag is set, or the target is reached
wait_until(r) ==
    /\ orch[r].pc \in {"wait_prefetch", "wait_open"}
    /\ stop_event \/ now >= WaitTarget(r)
    /\ orch' = [orch EXCEPT ![r].pc = IF @ = "wait_prefetch" THEN "chk_prefetch" ELSE "chk_open"]
    /\ hist' = IF stop_event THEN [hist EXCEPT ![r] = SawStop(@)] ELSE hist
    /\ UNCHANGED <<now, uiVars, message_queue, keeper>>

\* mutant: the open wait follows the pre-fetch wait at once
AfterPrefetchWait_NoDiscovery(flag) == IF flag THEN "done" ELSE "chk_open"

\* lines 584-588: return, or go on to get_all_available_times
AfterPrefetchWait(flag) == IF flag THEN "done" ELSE "discover"

\* line 584
ChkPrefetch(r) ==
    /\ orch[r].pc = "chk_prefetch"
    /\ IF stop_event
       THEN /\ orch' = [orch EXCEPT ![r].pc = AfterPrefetchWait(stop_event)]
            /\ hist' = [hist EXCEPT ![r] = SawStop(@)]
       ELSE /\ orch' = [orch EXCEPT ![r].pc = AfterPrefetchWait(stop_event)]
            /\ UNCHANGED hist
    /\ UNCHANGED <<now, uiVars, message_queue, keeper>>

is_reverse_order(inputs) == inputs.order = ORDER_DEFAULT

AfterDiscovery(r, all_times) ==
    orch' = [orch EXCEPT
               ![r].sorted_times =
                   filter_and_sort_times(all_times, orch[r].inputs.start_time,
                                         orch[r].inputs.end_time, orch[r].inputs.course_type,
                                         is_reverse_order(orch[r].inputs)),
               ![r].pc = IF now < orch[r].run_datetime THEN "wait_open" ELSE "chk_open"]

\* the four workers start: each returns [] at once when the flag is set
DiscoverStart(r) ==
    /\ orch[r].pc = "discover"
    /\ IF stop_event
       THEN /\ AfterDiscovery(r, <<>>)
            /\ hist' = [hist EXCEPT ![r] = SawStop(@)]
       ELSE /\ orch' = [orch EXCEPT ![r].pc = "discover_inflight"]
            /\ hist' = [hist EXCEPT ![r].calls = @ \cup {"discovery"}]
    /\ UNCHANGED <<now, uiVars, message_queue, keeper>>

DiscoverReturn(r) ==
    /\ orch[r].pc = "discover_inflight"
    /\ \E outcome \in remote.discovery, order \in remote.order :
          IF fetch_raises(outcome)
          THEN Fatal(r, hist[r])
          ELSE /\ AfterDiscovery(r, get_all_available_times(order, outcome))
               /\ UNCHANGED <<message_queue, hist>>
    /\ UNCHANGED <<now, uiVars, keeper>>

\* line 620
ChkOpen(r) ==
    /\ orch[r].pc = "chk_open"
    /\ IF stop_event
       THEN /\ orch' = [orch EXCEPT ![r].pc = "done"]
            /\ hist' = [hist EXCEPT ![r] = SawStop(@)]
       ELSE /\ orch' = [orch EXCEPT ![r].pc = "open_loop", ![r].start_time = now]
            /\ UNCHANGED hist
    /\ UNCHANGED <<now, uiVars, message_queue, keeper>>

\* one pass of the loop of wait_for_open_signal, up to the query being sent
OpenIter(r) ==
    /\ orch[r].pc = "open_loop"
    /\ IF stop_event
       THEN /\ orch' = [orch EXCEPT ![r].pc = "open_ret", ![r].opened = FALSE]
            /\ hist' = [hist EXCEPT ![r] = [SawStop(@) EXCEPT !.wres = "canceled"]]
       ELSE IF SignalTimedOut(now - orch[r].start_time)
       THEN /\ orch' = [orch EXCEPT ![r].pc = "open_ret", ![r].opened = FALSE]
            /\ hist' = [hist EXCEPT ![r].wres = "timedout"]
       ELSE /\ orch' = [orch EXCEPT ![r].pc = "open_inflight"]
            /\ hist' = [hist EXCEPT ![r].calls = @ \cup {"open"},
                                    ![r].lateCall = @ \/ hist[r].flagInOpen]
    /\ UNCHANGED <<now, uiVars, message_queue, keeper>>

OpenResponse(r) ==
    /\ orch[r].pc = "open_inflight"
    /\ \E resp \in remote.open :
          IF resp = "open"
          THEN /\ orch' = [orch EXCEPT ![r].pc = "open_ret", ![r].opened = TRUE]
               /\ hist' = [hist EXCEPT ![r].wres = "opened"]
          ELSE /\ orch' = [orch EXCEPT ![r].pc = "open_loop"]
               /\ UNCHANGED hist
    /\ UNCHANGED <<now, uiVars, message_queue, keeper>>

\* mutant: the result of wait_for_open_signal is not looked at
ProceedToBooking_Always(opened) == TRUE

\* if not core.wait_for_open_signal(...): ... return
ProceedToBooking(opened) == opened

\* lines 624-638, up to the call of run_api_booking and its pre-delay
AfterOpen(r) ==
    /\ orch[r].pc = "open_ret"
    /\ IF ~ProceedToBooking(orch[r].opened)
       THEN /\ Report(r, "UI_ERROR", "open")
            /\ orch' = [orch EXCEPT ![r].pc = "done"]
            /\ hist' = [hist EXCEPT ![r].sink = Append(@, "UI_ERROR:open")]
       ELSE IF ~DelayValid(orch[r].inputs.delay)
       THEN Fatal(r, hist[r])
       ELSE /\ orch' = [orch EXCEPT
                          ![r].pc = IF IntOfDelay(orch[r].inputs.delay) > 0
                                    THEN "delay_sleep" ELSE "booking",
                          ![r].delay_until = now + IntOfDelay(orch[r].inputs.delay)]
            /\ UNCHANGED <<message_queue, hist>>
    /\ UNCHANGED <<now, uiVars, keeper>>

\* mutant: the flag ends the sleep
DelayServed_UnlessStopped(flag, clock, delay_until) == flag \/ clock >= delay_until

\* time.sleep(delay_seconds) (478) returns when the time is over; it does
\* not look at the flag
DelayServed(flag, clock, delay_until) == clock >= delay_until

\* time.sleep(delay_seconds) ends
DelayDone(r) ==
    /\ orch[r].pc = "delay_sleep"
    /\ DelayServed(stop_event, now, orch[r].delay_until)
    /\ orch' = [orch EXCEPT ![r].pc = "booking", ![r].delay_until = 0]
    /\ UNCHANGED <<now, uiVars, message_queue, keeper, hist>>

\* ------------------------------------------------------- run_api_booking
\* mutant: the whole list is attempted
times_to_attempt_All(sorted_available_times) == sorted_available_times

times_to_attempt(sorted_available_times) ==
    SubSeq(sorted_available_times, 1,
           IF Len(sorted_available_times) < TIMES_TO_ATTEMPT
           THEN Len(sorted_available_times) ELSE TIMES_TO_ATTEMPT)

\* mutant: the test-mode flag is not honoured
TestMode_Ignored(inputs) == FALSE

TestMode(inputs) == inputs.test_mode

\* mutant: the success code is never recognised
IsConfirmed_Never(resultCode) == FALSE

IsConfirmed(resultCode) == resultCode = "0000"

\* mutant: a request is never sent a second time
HasAttemptsLeft_Once(attempt) == attempt < 1

\* mutant: one attempt more than the budget
HasAttemptsLeft_OneMore(attempt) == attempt <= RESERVATION_MAX_RETRIES

\* for attempt in range(max_retries)
HasAttemptsLeft(attempt) == attempt < RESERVATION_MAX_RETRIES

\* mutant: the attempt sequencer does not look at the flag
SequencerSeesStop_Never(flag) == FALSE

\* if self.stop_event.is_set(): return False (lines 452 and 497)
SequencerSeesStop(flag) == flag

\* run_api_booking returns: its last message (if any) is the run's last
Return(r, h, value, kind, tag) ==
    /\ orch' = [orch EXCEPT ![r].pc = "done"]
    /\ IF tag = "none"
       THEN /\ hist' = [hist EXCEPT ![r] = [h EXCEPT !.ret = value]]
            /\ UNCHANGED message_queue
       ELSE /\ hist' = [hist EXCEPT ![r] =
                           [h EXCEPT !.ret = value, !.sink = Append(@, kind \o ":" \o tag)]]
            /\ Report(r, kind, tag)

\* lines 481-494
BookingHead(r) ==
    /\ orch[r].pc = "booking"
    /\ LET times == times_to_attempt(orch[r].sorted_times)
       IN  IF times = <<>>
           THEN Return(r, hist[r], "False", "UI_LOG", "nocand")
           ELSE IF TestMode(orch[r].inputs)
           THEN Return(r, [hist[r] EXCEPT !.slot = <<times[1]>>], "True", "UI_LOG", "test")
           ELSE /\ orch' = [orch EXCEPT ![r].pc = "cand_loop", ![r].i = 1]
                /\ UNCHANGED <<message_queue, hist>>
    /\ UNCHANGED <<now, uiVars, keeper>>

\* lines 496-503 and 516-517: the head of the loop over the candidates
CandLoop(r) ==
    /\ orch[r].pc = "cand_loop"
    /\ IF orch[r].i > Len(times_to_attempt(orch[r].sorted_times))
       THEN Return(r, hist[r], "False", "UI_LOG", "exhausted")
       ELSE IF SequencerSeesStop(stop_event)
       THEN Return(r, SawStop(hist[r]), "False", "UI_LOG", "none")
       ELSE /\ orch' = [orch EXCEPT ![r].pc = "try_loop", ![r].attempt = 0]
            /\ UNCHANGED <<message_queue, hist>>
    /\ UNCHANGED <<now, uiVars, keeper>>

\* lines 451-454 and 470: the head of the loop of try_reservation
TryIter(r) ==
    /\ orch[r].pc = "try_loop"
    /\ IF ~HasAttemptsLeft(orch[r].attempt)
       THEN /\ orch' = [orch EXCEPT ![r].pc = "cand_loop", ![r].i = @ + 1]
            /\ UNCHANGED hist
       ELSE IF SequencerSeesStop(stop_event)
       THEN /\ orch' = [orch EXCEPT ![r].pc = "cand_loop", ![r].i = @ + 1]
            /\ hist' = [hist EXCEPT ![r] = SawStop(@)]
       ELSE /\ orch' = [orch EXCEPT ![r].pc = "res_inflight"]
            /\ hist' = [hist EXCEPT
                          ![r].calls = @ \cup {"reserve"},
                          ![r].reqlog = Append(@, [rank |-> orch[r].i, result |-> "inflight"]),
                          ![r].lateCall = @ \/ hist[r].flagInOpen]
    /\ UNCHANGED <<now, uiVars, message_queue, keeper>>

\* how a request ended, as the history keeps it
Ended(resp) ==
    IF resp = "malformed" THEN "malformed"
    ELSE IF resp = "0000" THEN "confirmed" ELSE "unconfirmed"

\* lines 455-469 and 505-514: the response to one doReservation request
ReservationResponse(r) ==
    /\ orch[r].pc = "res_inflight"
    /\ \E resp \in remote.reserve :
          LET h == [hist[r] EXCEPT
                      !.reqlog[Len(hist[r].reqlog)].result = Ended(resp),
                      !.neterr = @ \/ resp = "neterr"]
          IN  IF resp = "malformed"
              THEN Fatal(r, [h EXCEPT !.ret = "raised"])
              ELSE IF resp # "neterr" /\ IsConfirmed(resp)
              THEN Return(r, [h EXCEPT !.slot = <<orch[r].sorted_times[orch[r].i]>>],
                          "True", "UI_LOG", "success")
              ELSE /\ orch' = [orch EXCEPT ![r].pc = "try_loop", ![r].attempt = @ + 1]
                   /\ hist' = [hist EXCEPT ![r] = h]
                   /\ UNCHANGED message_queue
    /\ UNCHANGED <<now, uiVars, keeper>>

\* ------------------------------------------------------- keep_session_alive
\* mutant: only the deadline ends the keeper
KeeperStop_DeadlineOnly(r) == now >= orch[r].run_datetime

\* while not self.stop_event.is_set() and now < target_dt, negated
KeeperStop(r) == stop_event \/ now >= orch[r].run_datetime

\* line 216 and the GET of line 223 being sent
KeeperIter(r) ==
    /\ keeper[r].pc = "k_loop"
    /\ IF KeeperStop(r)
       THEN /\ keeper' = [keeper EXCEPT ![r].pc = "k_done"]
            /\ UNCHANGED hist
       ELSE /\ keeper' = [keeper EXCEPT ![r].pc = "k_inflight"]
            /\ hist' = [hist EXCEPT ![r].calls = @ \cup {"keepalive"}]
    /\ UNCHANGED <<now, uiVars, message_queue, orch>>

\* the GET returns or raises: both are only logged
KeeperResponse(r) ==
    /\ keeper[r].pc = "k_inflight"
    /\ keeper' = [keeper EXCEPT ![r].pc = "k_sleep", ![r].sleep_start = now]
    /\ UNCHANGED <<now, uiVars, message_queue, orch, hist>>

\* lines 232-236: the one-second sleeps end after 60 of them, or earlier
KeeperWake(r) ==
    /\ keeper[r].pc = "k_sleep"
    /\ KeeperStop(r) \/ now - keeper[r].sleep_start >= KEEPALIVE_PERIOD
    /\ keeper' = [keeper EXCEPT ![r].pc = "k_loop", ![r].sleep_start = 0]
    /\ UNCHANGED <<now, uiVars, message_queue, orch, hist>>

\* ----------------------------------------------------------- specification
Next ==
    \/ run_booking
    \/ stop_booking
    \/ check_queue_and_rerun
    \/ Tick
    \/ \E r \in Runs :
          \/ LoginAttempt(r) \/ LoginResponse(r) \/ AfterLogin(r)
          \/ wait_until(r) \/ ChkPrefetch(r)
          \/ DiscoverStart(r) \/ DiscoverReturn(r)
          \/ ChkOpen(r) \/ OpenIter(r) \/ OpenResponse(r) \/ AfterOpen(r)
          \/ DelayDone(r) \/ BookingHead(r) \/ CandLoop(r)
          \/ TryIter(r) \/ ReservationResponse(r)
          \/ KeeperIter(r) \/ KeeperResponse(r) \/ KeeperWake(r)

Spec == Init /\ [][Next]_vars

\* The threads are scheduled, time passes while a thread can tell it, and
\* the page keeps being rerun; the user's clicks are under no obligation.
OrchStep(r) ==
    \/ LoginAttempt(r) \/ LoginResponse(r) \/ AfterLogin(r)
    \/ wait_until(r) \/ ChkPrefetch(r)
    \/ DiscoverStart(r) \/ DiscoverReturn(r)
    \/ ChkOpen(r) \/ OpenIter(r) \/ OpenResponse(r) \/ AfterOpen(r)
    \/ DelayDone(r) \/ BookingHead(r) \/ CandLoop(r)
    \/ TryIter(r) \/ ReservationResponse(r)

KeeperStep(r) == KeeperIter(r) \/ KeeperResponse(r) \/ KeeperWake(r)

Fairness ==
    /\ WF_vars(Tick)
    /\ WF_vars(check_queue_and_rerun)
    /\ \A r \in Runs : WF_vars(OrchStep(r)) /\ WF_vars(KeeperStep(r))

SpecLive == Init /\ [][Next]_vars /\ Fairness

\* The user may start a run again after a run was stopped or has reported an
\* error.  The remote service answers every login and every partition query,
\* so that the state space of two overlapping runs stays small.
RerunForms ==
    { Form("00:02:00", "Master", ORDER_DEFAULT, "0", FALSE),
      Form("00:00:00", "Master", ORDER_BOX_ASC, "60", TRUE) }

RerunRemote ==
    [login |-> {"success"}, discovery |-> {AllOutcome("rows")},
     order |-> {<<"A", "B", "C", "D">>}, open |-> {"open", "closed"},
     reserve |-> {"0000", "9999"}]

InitRerun ==
    /\ form \in RerunForms
    /\ remote = RerunRemote
    /\ run_limit = MaxRuns
    /\ tick_steps = CoarseTickSteps
    /\ sel = SelOff
    /\ gate = GateOff
    /\ Idle

SpecRerun == InitRerun /\ [][Next]_vars

\* ------------------------------------------- discovery and ranking alone
\* get_all_available_times and filter_and_sort_times applied to inputs drawn
\* from small sets: every combination of the three outcomes of a partition
\* query, four completion orders, given lists, windows, groups, directions.
mainVars ==
    <<now, form, remote, run_limit, tick_steps, is_running, stop_event, run_id, nruns,
      message_queue, orch, keeper, hist, gate>>

Slot(time, cos) ==
    [BK_TIME |-> time, BK_COS |-> cos, BK_PART |-> PartOf(cos),
     course_nm |-> course_detail_mapping(cos), co_div |-> "611"]

HM(a, b, c, d) == <<a, b, ":", c, d>>

ExampleTimes ==
    << Slot(Str4("0","7","1","0"), "A"), Slot(Str4("0","7","4","0"), "B"),
       Slot(Str4("0","8","5","0"), "A") >>

TieTimes ==
    << Slot(Str4("0","8","5","0"), "C"), Slot(<<"7","3","0">>, "B"),
       Slot(Str4("0","8","5","0"), "A"), Slot(Str4("0","7","3","0"), "D"),
       Slot(Str4("0","8","5","0"), "B"), Slot(Str4("0","7","0","0"), "A"),
       Slot(Str4("0","9","0","0"), "D"), Slot(Str4("0","9","1","0"), "C") >>

GivenLists == {ExampleTimes, TieTimes}

Windows ==
    { <<HM("0","7","0","0"), HM("0","9","0","0")>>,
      <<HM("0","7","1","0"), HM("0","8","5","0")>>,
      << <<"7", ":", "2", "0">>, Str4("0","8","2","0")>>,
      <<HM("0","9","0","0"), HM("0","7","0","0")>> }

Groups == {"All", "Champion", "Master", "Senior"}

RankRemote ==
    [login |-> {"success"}, discovery |-> [Cos -> {"rows", "neterr", "malformed"}],
     order |-> { <<"A", "B", "C", "D">>, <<"D", "C", "B", "A">>,
                 <<"C", "A", "D", "B">>, <<"B", "D", "A", "C">> },
     open |-> {"open"}, reserve |-> {"0000"}]

InitRank ==
    /\ form = Form("00:00:00", "All", ORDER_DEFAULT, "0", TRUE)
    /\ remote = RankRemote
    /\ run_limit = 0
    /\ tick_steps = TickSteps
    /\ sel = [SelOff EXCEPT !.pc = "start"]
    /\ gate = GateOff
    /\ Idle

\* get_all_available_times is called: it returns a list or raises
Discover ==
    /\ sel.pc = "start"
    /\ \E outcome \in remote.discovery, order \in remote.order :
          sel' = IF fetch_raises(outcome)
                 THEN [sel EXCEPT !.pc = "raised", !.outcome = outcome, !.order = order]
                 ELSE [sel EXCEPT !.pc = "fetched", !.outcome = outcome, !.order = order,
                                  !.all_times = get_all_available_times(order, outcome),
                                  !.fetched = get_all_available_times(order, outcome)]
    /\ UNCHANGED mainVars

\* the list to rank is one of the given lists
Given ==
    /\ sel.pc = "start"
    /\ \E ts \in GivenLists :
          sel' = [sel EXCEPT !.pc = "fetched", !.all_times = ts, !.fetched = ts]
    /\ UNCHANGED mainVars

\* filter_and_sort_times is called on the list: all_times is read only
Filter ==
    /\ sel.pc = "fetched"
    /\ \E w \in Windows, g \in Groups, is_reverse \in BOOLEAN :
          sel' = [sel EXCEPT
                    !.pc = "ranked", !.start_time_str = w[1], !.end_time_str = w[2],
                    !.target_courses = g, !.is_reverse = is_reverse,
                    !.result = filter_and_sort_times(sel.all_times, w[1], w[2], g, is_reverse)]
    /\ UNCHANGED mainVars

\* filter_and_sort_times is called again with the same arguments
FilterAgain ==
    /\ sel.pc = "ranked"
    /\ sel' = [sel EXCEPT
                 !.pc = "ranked_again",
                 !.again = filter_and_sort_times(sel.all_times, sel.start_time_str,
                                                 sel.end_time_str, sel.target_courses,
                                                 sel.is_reverse)]
    /\ UNCHANGED mainVars

NextRank == Discover \/ Given \/ Filter \/ FilterAgain

SpecRank == InitRank /\ [][NextRank]_vars

\* ------------------------------------------------ wait_until, millisecond
\* wait_until on a clock that counts milliseconds.  A sleep lasts exactly as
\* long as asked for and the statements between two sleeps take no time; the
\* clock may be set forward or back between two passes of the loop.
GateStarts == {0, 60}
GateTargets == {0, 40, 61, 100, 150, 1000, 1060, 1210}
ClockAdjustments == {-150, 250}

\* mutant: the target counts as reached only at the very instant
TargetReached_Exact(remaining_seconds) == remaining_seconds = 0

\* if remaining_seconds <= 0.001: break
TargetReached(remaining_seconds) == remaining_seconds <= 1

\* mutant: every sleep is the long one
sleep_interval_Coarse(remaining_seconds) == 100

\* mutant: the 1 ms sleep is never chosen
sleep_interval_NoFine(remaining_seconds) == IF remaining_seconds < 1000 THEN 5 ELSE 100

\* lines 106-112, in milliseconds
sleep_interval(remaining_seconds) ==
    IF remaining_seconds < 100 THEN 1
    ELSE IF remaining_seconds < 1000 THEN 5
    ELSE 100

gateRest ==
    <<now, form, remote, run_limit, tick_steps, is_running, run_id, nruns,
      message_queue, orch, keeper, hist, sel>>

InitGate ==
    /\ form = Form("00:00:00", "All", ORDER_DEFAULT, "0", TRUE)
    /\ remote = FullRemote
    /\ run_limit = 0
    /\ tick_steps = TickSteps
    /\ sel = SelOff
    /\ \E c \in GateStarts, t \in GateTargets :
          gate = [GateOff EXCEPT !.pc = "start", !.clock = c, !.t0 = c, !.target = t]
    /\ Idle

\* start_pre_process reaches a wait state (569-582, 605-618): wait_until is
\* called only when the target is still ahead
EnterWaitState ==
    /\ gate.pc = "start"
    /\ gate' = IF gate.clock < gate.target
               THEN [gate EXCEPT !.pc = "loop", !.called = TRUE]
               ELSE [gate EXCEPT !.pc = "exit", !.outcome = "skipped"]
    /\ UNCHANGED <<gateRest, stop_event>>

\* wait_until is called, whatever its target
CallWaitUntil ==
    /\ gate.pc = "start"
    /\ gate' = [gate EXCEPT !.pc = "loop", !.called = TRUE]
    /\ UNCHANGED <<gateRest, stop_event>>

\* one pass of the loop (90-112), up to the sleep being entered
WaitIteration ==
    /\ gate.pc = "loop"
    /\ LET remaining_seconds == gate.target - gate.clock
       IN  IF stop_event
           THEN gate' = [gate EXCEPT !.pc = "exit", !.outcome = "canceled"]
           ELSE IF TargetReached(remaining_seconds)
           THEN gate' = [gate EXCEPT !.pc = "exit", !.outcome = "reached",
                                     !.remaining_seconds = remaining_seconds,
                                     !.iterations = IF @ < 2 THEN @ + 1 ELSE @]
           ELSE /\ gate.clock + sleep_interval(remaining_seconds) <= MaxGateClock
                /\ gate' = [gate EXCEPT !.pc = "sleep", !.slept = TRUE,
                                        !.remaining_seconds = remaining_seconds,
                                        !.sleep = sleep_interval(remaining_seconds),
                                        !.wake = gate.clock + sleep_interval(remaining_seconds),
                                        !.iterations = IF @ < 2 THEN @ + 1 ELSE @]
    /\ UNCHANGED <<gateRest, stop_event>>

\* time.sleep returns
WakeUp ==
    /\ gate.pc = "sleep"
    /\ gate' = [gate EXCEPT !.pc = "loop", !.clock = gate.wake]
    /\ UNCHANGED <<gateRest, stop_event>>

\* the clock of the machine is set
ClockJump ==
    /\ gate.pc = "loop"
    /\ gate.jumps < MaxJumps
    /\ \E d \in ClockAdjustments :
          /\ gate.clock + d >= 0
          /\ gate.clock + d <= MaxGateClock
          /\ gate' = [gate EXCEPT !.clock = @ + d, !.jumps = @ + 1]
    /\ UNCHANGED <<gateRest, stop_event>>

\* the flag becomes set while wait_until runs
GateStop ==
    /\ gate.pc \in {"loop", "sleep"}
    /\ ~stop_event
    /\ stop_event' = TRUE
    /\ UNCHANGED <<gateRest, gate>>

NextGate ==
    EnterWaitState \/ CallWaitUntil \/ WaitIteration \/ WakeUp \/ ClockJump \/ GateStop

SpecGate == InitGate /\ [][NextGate]_vars

\* ------------------------------------------------------------------ claims
AttemptPcs == {"cand_loop", "try_loop", "res_inflight"}
Reqs(r) == hist[r].reqlog
Ranks(q) == [k \in 1..Len(q) |-> q[k].rank]

\* C1: with test_mode set a run never sends an acquisition request; when
\* run_api_booking has returned and the candidate list is not empty, it
\* returned True after reporting the first candidate and nothing else.
C1_TestModeNeverAcquires ==
    \A r \in Runs :
       orch[r].inputs.test_mode =>
          /\ "reserve" \notin hist[r].calls
          /\ Reqs(r) = <<>>
          /\ orch[r].pc \notin AttemptPcs
          /\ (hist[r].ret # "none" /\ orch[r].sorted_times # <<>>) =>
                /\ hist[r].ret = "True"
                /\ hist[r].sink = <<"UI_LOG:test">>
                /\ hist[r].slot = <<orch[r].sorted_times[1]>>

C1_Witness ==
    \E r \in Runs :
       /\ orch[r].inputs.test_mode
       /\ hist[r].ret = "True"
       /\ Len(orch[r].sorted_times) > 1
       /\ stop_event

\* C2: a run sends an acquisition request, and reaches run_api_booking at
\* all, only after an open-status query of that run answered "open".
C2_OpenBeforeAcquire ==
    \A r \in Runs :
       (\/ Reqs(r) # <<>>
        \/ "reserve" \in hist[r].calls
        \/ orch[r].pc \in AttemptPcs \cup {"delay_sleep", "booking"}
        \/ hist[r].ret # "none")
       => hist[r].wres = "opened"

C2_Witness ==
    \E r \in Runs : Reqs(r) # <<>> /\ hist[r].wres = "opened"

\* C3: requests go out in rank order and one at a time: every request but
\* the last has ended unconfirmed, ranks never decrease, and a confirmed
\* request is the last one: the run has ended with success for that candidate.
C3_RankOrderStopOnFirst ==
    \A r \in Runs :
       LET q == Reqs(r)
       IN  /\ \A k \in 1..(Len(q) - 1) :
                /\ q[k].result = "unconfirmed"
                /\ q[k].rank <= q[k + 1].rank
           /\ (q # <<>> /\ q[Len(q)].result = "confirmed") =>
                /\ orch[r].pc = "done"
                /\ hist[r].ret = "True"
                /\ hist[r].slot = <<orch[r].sorted_times[q[Len(q)].rank]>>
                /\ hist[r].sink = <<"UI_LOG:success">>

C3_Witness ==
    \E r \in Runs :
       /\ Len(Reqs(r)) >= 3
       /\ Reqs(r)[Len(Reqs(r))].result = "confirmed"
       /\ Reqs(r)[Len(Reqs(r))].rank >= 2

\* The scenario of C4: at least three candidates, not test mode, no
\* cancellation seen, the service rejected every request for the first
\* candidate and confirmed the request for the second; the run has ended.
C4_Scenario(r) ==
    /\ ~orch[r].inputs.test_mode
    /\ Len(orch[r].sorted_times) >= 3
    /\ ~hist[r].sawStop
    /\ ~hist[r].neterr
    /\ orch[r].pc = "done"
    /\ \A k \in 1..Len(Reqs(r)) :
          /\ Reqs(r)[k].rank = 1 => Reqs(r)[k].result = "unconfirmed"
          /\ Reqs(r)[k].rank = 2 => Reqs(r)[k].result = "confirmed"
    /\ \E k \in 1..Len(Reqs(r)) : Reqs(r)[k].rank = 2

\* C4 as claimed: in that scenario exactly two requests were sent, one for
\* the first candidate and one for the second.
C4_ExactlyTwoRequests ==
    \A r \in Runs : C4_Scenario(r) => Ranks(Reqs(r)) = <<1, 2>>

\* C4 amended: in that scenario exactly four requests were sent, three for
\* the first candidate (a rejected request is sent again until the budget of
\* three is spent) and one for the second, none for the third, and the run
\* ended with the second candidate acquired.
C4_ThreeThenOne ==
    \A r \in Runs :
       C4_Scenario(r) =>
          /\ Ranks(Reqs(r)) = <<1, 1, 1, 2>>
          /\ hist[r].ret = "True"
          /\ hist[r].slot = <<orch[r].sorted_times[2]>>

C4_Witness == \E r \in Runs : C4_Scenario(r)

\* C5: with an empty candidate list the run neither waits for the target
\* instant nor watches for the open signal.
C5_EmptyListEndsBeforeOpenWait ==
    \A r \in Runs :
       orch[r].pc \in {"wait_open", "open_loop", "open_inflight"}
       => orch[r].sorted_times # <<>>

\* C6: while a thread of some run is alive, a set stop_event stays set.
C6_FlagNeverClearedMidRun ==
    [][((\E r \in Runs : OrchAlive(r) \/ KeeperAlive(r)) /\ stop_event) => stop_event']_vars

\* C7: once the flag was set while a run watched for the open signal, that
\* run starts no further open-status query or acquisition request, and it
\* ends without the 'open signal detection failed' error.
C7_CancelInOpenWait ==
    \A r \in Runs :
       hist[r].flagInOpen =>
          /\ ~hist[r].lateCall
          /\ orch[r].pc = "done" => \A k \in 1..Len(hist[r].sink) : hist[r].sink[k] # "UI_ERROR:open"

\* C8: a run that has ended has put exactly one message that reports how it
\* ended.
C8_ExactlyOneTerminal ==
    \A r \in Runs : orch[r].pc = "done" => Len(hist[r].sink) = 1

\* C9: wait_for_open_signal has returned timed-out only with at least 420 s
\* elapsed since it started, and the run has sent no acquisition request.
C9_TimedOutOnlyAfterMax ==
    \A r \in Runs :
       hist[r].wres = "timedout" =>
          /\ now - orch[r].start_time >= 420
          /\ "reserve" \notin hist[r].calls
          /\ Reqs(r) = <<>>
          /\ ~hist[r].sawStop

C9_Witness ==
    \E r \in Runs : hist[r].wres = "timedout" /\ orch[r].pc = "done"

\* C10: after a failed login the run only reports the failure and ends: the
\* session keeper is not started and no query or request other than the
\* login is ever sent.
C10_LoginFailureEndsRun ==
    \A r \in Runs :
       orch[r].login_result = "fail" =>
          /\ orch[r].pc \in {"login_ret", "done"}
          /\ keeper[r].pc = "k_idle"
          /\ hist[r].calls \subseteq {"login"}
          /\ orch[r].pc = "done" => hist[r].sink = <<"UI_ERROR:login">>

C10_Witness ==
    \E r \in Runs :
       /\ orch[r].login_result = "fail"
       /\ orch[r].pc = "done"
       /\ "login" \in hist[r].calls

\* C11: while the flag is set and stays set, no run sends a new acquisition
\* request: a step taken with the flag set leaves every run's list of
\* requests as long as it was (a request in flight may still be answered).
C11_NoNewRequestAfterCancel ==
    [][(stop_event /\ stop_event') =>
          \A r \in Runs :
             /\ Len(hist'[r].reqlog) = Len(hist[r].reqlog)
             /\ orch'[r].pc = "res_inflight" => orch[r].pc = "res_inflight"]_vars

\* a request was answered after the flag was set and none followed it,
\* although a candidate and attempts were left
C11_Witness ==
    \E r \in Runs :
       /\ stop_event
       /\ hist[r].sawStop
       /\ orch[r].pc = "done"
       /\ hist[r].ret = "False"
       /\ Len(Reqs(r)) = 1
       /\ Reqs(r)[1].result = "unconfirmed"
       /\ Len(orch[r].sorted_times) >= 2

\* the terms of the claims about discovery and ranking
SlotKey(t) == <<t.BK_TIME, t.BK_COS, t.BK_PART>>
ClockValue(time_str) == IntOf(RemoveChar(time_str, ":"))
GroupOf(g) ==
    CASE g = "All" -> {"A", "B", "C", "D"} [] g = "Champion" -> {"A", "B"}
      [] g = "Master" -> {"C", "D"} [] OTHER -> {}
Discovered == sel.pc \in {"fetched", "ranked", "ranked_again"} /\ sel.order # <<>>
Ranked == sel.pc \in {"ranked", "ranked_again"}
IndexIn(ts, x) == CHOOSE k \in 1..Len(ts) : ts[k] = x

\* C12: whatever the outcomes of the four partition queries, discovery
\* returns normally, with every slot of every partition whose query succeeded.
C12_PartitionFailureNeverAborts ==
    (sel.pc \notin {"off", "start"} /\ sel.order # <<>>) =>
       /\ sel.pc # "raised"
       /\ \A c \in Cos :
             sel.outcome[c] = "rows" =>
                \A k \in 1..Len(TeeRows(c)) :
                   \E j \in 1..Len(sel.fetched) : SlotKey(sel.fetched[j]) = SlotKey(TeeRows(c)[k])

\* C13: the list discovery returns holds no key twice, and every key of a
\* row of a partition whose query succeeded exactly once, in every
\* completion order.
C13_NoDuplicateKeys ==
    Discovered =>
       LET ts == sel.fetched
       IN  /\ \A i, j \in 1..Len(ts) : i # j => SlotKey(ts[i]) # SlotKey(ts[j])
           /\ \A c \in Cos :
                 sel.outcome[c] = "rows" =>
                    \A k \in 1..Len(TeeRows(c)) :
                       Cardinality({j \in 1..Len(ts) : SlotKey(ts[j]) = SlotKey(TeeRows(c)[k])}) = 1

\* two partitions returned a row with the same key, and the one that holds
\* it as its last row completed first
C13_Witness ==
    /\ sel.pc = "fetched"
    /\ sel.outcome["C"] = "rows" /\ sel.outcome["D"] = "rows"
    /\ sel.order[1] = "D"
    /\ \E k \in 1..Len(sel.fetched) : SlotKey(sel.fetched[k]) = SlotKey(TeeRows("D")[2])

\* C14: the result holds exactly the slots of the input whose time of day
\* lies in the window, both ends included, and whose partition belongs to
\* the group; the input list is what it was.
C14_KeepsIffInWindowAndGroup ==
    Ranked =>
       LET kept == { k \in 1..Len(sel.fetched) :
                       /\ ClockValue(sel.start_time_str) <= ClockValue(sel.fetched[k].BK_TIME)
                       /\ ClockValue(sel.fetched[k].BK_TIME) <= ClockValue(sel.end_time_str)
                       /\ sel.fetched[k].BK_COS \in GroupOf(sel.target_courses) }
       IN  /\ {sel.result[k] : k \in 1..Len(sel.result)} = {sel.fetched[k] : k \in kept}
           /\ Len(sel.result) = Cardinality(kept)
           /\ sel.all_times = sel.fetched

\* slots at both ends of the window are kept while others are dropped
C14_Witness ==
    /\ sel.pc = "ranked"
    /\ sel.start_time_str = HM("0","7","1","0")
    /\ sel.end_time_str = HM("0","8","5","0")
    /\ \E k \in 1..Len(sel.result) : sel.result[k].BK_TIME = Str4("0","8","5","0")
    /\ \E k \in 1..Len(sel.result) : sel.result[k].BK_TIME = Str4("0","7","1","0")
    /\ 0 < Len(sel.result) /\ Len(sel.result) < Len(sel.all_times)

\* C15: the result is ordered by the integer value of the time of day, not
\* increasing when is_reverse and not decreasing otherwise; the example list
\* with window 07:00-09:00, group A/B, descending, gives
\* [08:50(A), 07:40(B), 07:10(A)].
C15_OrderedByIntegerTime ==
    Ranked =>
       /\ \A k \in 1..(Len(sel.result) - 1) :
             IF sel.is_reverse
             THEN ClockValue(sel.result[k].BK_TIME) >= ClockValue(sel.result[k + 1].BK_TIME)
             ELSE ClockValue(sel.result[k].BK_TIME) <= ClockValue(sel.result[k + 1].BK_TIME)
       /\ (/\ sel.fetched = ExampleTimes
           /\ sel.start_time_str = HM("0","7","0","0")
           /\ sel.end_time_str = HM("0","9","0","0")
           /\ sel.target_courses = "Champion"
           /\ sel.is_reverse)
          => sel.result = <<ExampleTimes[3], ExampleTimes[2], ExampleTimes[1]>>

C15_Witness ==
    /\ sel.pc = "ranked"
    /\ sel.fetched = ExampleTimes
    /\ sel.start_time_str = HM("0","7","0","0")
    /\ sel.end_time_str = HM("0","9","0","0")
    /\ sel.target_courses = "Champion"
    /\ sel.is_reverse
    /\ Len(sel.result) = 3

\* C16: two kept slots with the same time of day stand in the result as
\* they stood in the input, in both directions, and calling the function
\* again with the same arguments gives the same list.
C16_StableBothDirections ==
    /\ Ranked =>
          \A i, j \in 1..Len(sel.result) :
             (i < j /\ ClockValue(sel.result[i].BK_TIME) = ClockValue(sel.result[j].BK_TIME))
             => IndexIn(sel.fetched, sel.result[i]) < IndexIn(sel.fetched, sel.result[j])
    /\ sel.pc = "ranked_again" => sel.again = sel.result

\* descending order, three slots tie, and the function was called twice
C16_Witness ==
    /\ sel.pc = "ranked_again"
    /\ sel.is_reverse
    /\ \E i \in 1..Len(sel.result) :
          /\ i + 2 <= Len(sel.result)
          /\ ClockValue(sel.result[i].BK_TIME) = ClockValue(sel.result[i + 2].BK_TIME)

\* the candidates run_api_booking walks through, once it has been entered
Consumes(r) == orch[r].pc \in {"booking"} \cup AttemptPcs
Candidates(r) == times_to_attempt(orch[r].sorted_times)

\* C17 as claimed: the candidates are strictly ordered by time of day in the
\* direction given to the filter, and there are at most five of them.
C17_StrictlyOrderedAtMostFive ==
    \A r \in Runs :
       Consumes(r) =>
          /\ Len(Candidates(r)) <= 5
          /\ \A k \in 1..(Len(Candidates(r)) - 1) :
                IF is_reverse_order(orch[r].inputs)
                THEN ClockValue(Candidates(r)[k].BK_TIME) > ClockValue(Candidates(r)[k + 1].BK_TIME)
                ELSE ClockValue(Candidates(r)[k].BK_TIME) < ClockValue(Candidates(r)[k + 1].BK_TIME)

\* C17 amended: the candidates are ordered by time of day in the direction
\* given to the filter, where candidates of different partitions may have
\* the same time of day; there are at most five of them and no request is
\* sent for a sixth.
C17_OrderedAtMostFive ==
    \A r \in Runs :
       /\ \A k \in 1..Len(Reqs(r)) : Reqs(r)[k].rank <= 5
       /\ orch[r].i <= 6
       /\ Consumes(r) =>
             /\ Len(Candidates(r)) <= 5
             /\ \A k \in 1..(Len(Candidates(r)) - 1) :
                   IF is_reverse_order(orch[r].inputs)
                   THEN ClockValue(Candidates(r)[k].BK_TIME) >= ClockValue(Candidates(r)[k + 1].BK_TIME)
                   ELSE ClockValue(Candidates(r)[k].BK_TIME) <= ClockValue(Candidates(r)[k + 1].BK_TIME)

\* more than five slots passed the filter, the first two tie, and the fifth
\* candidate has been requested
C17_Witness ==
    \E r \in Runs :
       /\ Consumes(r)
       /\ Len(orch[r].sorted_times) > 5
       /\ ClockValue(Candidates(r)[1].BK_TIME) = ClockValue(Candidates(r)[2].BK_TIME)
       /\ \E k \in 1..Len(Reqs(r)) : Reqs(r)[k].rank = 5

\* C18: when the target has passed already as the wait state is entered (and
\* the clock is not set back), no sleep is executed: start_pre_process does
\* not call wait_until, and wait_until, if called, leaves its loop in the
\* first pass.
C18_PastTargetNoSleep ==
    (gate.pc # "off" /\ gate.target <= gate.t0 /\ gate.jumps = 0) =>
       /\ ~gate.slept
       /\ gate.pc # "sleep"
       /\ gate.iterations <= 1
       /\ (gate.pc = "exit" /\ ~gate.called) => gate.outcome = "skipped"
       /\ (gate.pc = "exit" /\ gate.called /\ ~stop_event) =>
             gate.outcome = "reached" /\ gate.iterations = 1

\* wait_until was called with a target in the past and has returned
C18_Witness ==
    /\ gate.pc = "exit"
    /\ gate.called
    /\ gate.target < gate.t0
    /\ gate.outcome = "reached"
    /\ gate.iterations = 1
    /\ ~gate.slept

\* C19: called with a target more than 100 ms ahead, with no cancellation
\* and the clock not set, wait_until leaves its loop at T - 1 ms or later and
\* not after T + 1 ms, and none of its sleeps ends after T.
C19_WakeWithinEpsilon ==
    (gate.called /\ gate.jumps = 0 /\ gate.target - gate.t0 > 100) =>
       /\ gate.pc = "sleep" => gate.wake <= gate.target
       /\ (gate.pc = "exit" /\ gate.outcome = "reached") =>
             /\ gate.target - gate.clock <= 1
             /\ gate.clock - gate.target <= 1

\* the target was more than a second ahead and the loop has been left
C19_Witness ==
    /\ gate.pc = "exit"
    /\ gate.outcome = "reached"
    /\ gate.jumps = 0
    /\ ~stop_event
    /\ gate.target - gate.t0 > 1000
    /\ gate.clock = gate.target - 1

\* C20: the sleep of a pass is chosen from the remaining time of that pass,
\* which is the target minus the clock as read in that pass: 100 ms above
\* 1 s, 5 ms from 0.1 s up to 1 s, 1 ms below 0.1 s.
C20_SleepFromFreshRemaining ==
    gate.pc = "sleep" =>
       /\ gate.remaining_seconds = gate.target - gate.clock
       /\ gate.wake = gate.clock + gate.sleep
       /\ gate.remaining_seconds > 1000 => gate.sleep = 100
       /\ (100 <= gate.remaining_seconds /\ gate.remaining_seconds < 1000) => gate.sleep = 5
       /\ gate.remaining_seconds < 100 => gate.sleep = 1

\* the clock was set during a wait of more than a second, and the pass
\* after it chose the shortest sleep
C20_Witness ==
    /\ gate.pc = "sleep"
    /\ gate.jumps = 1
    /\ gate.target - gate.t0 > 1000
    /\ gate.sleep = 1

\* C21: a run whose thread was started has a well-formed configuration
\* (run_booking rejected every other one), and no run ends with the fatal
\* error after the open signal because of a malformed value.
C21_MalformedConfigRejected ==
    \A r \in Runs :
       orch[r].pc # "idle" =>
          /\ RunTimeValid(orch[r].inputs.run_time)
          /\ DelayValid(orch[r].inputs.delay)
          /\ ~(/\ hist[r].wres = "opened"
               /\ Reqs(r) = <<>>
               /\ \E k \in 1..Len(hist[r].sink) : hist[r].sink[k] = "UI_ERROR:fatal")

\* C22: a step of the session keeper never changes the flag; it sends a
\* keep-alive call only with the flag unset and the deadline ahead; at the
\* head of its loop with the flag set or the deadline reached it ends; the
\* answer to a call, good or bad, only sends it to sleep; and once the flag
\* is set or the deadline reached a living keeper ends.
C22_KeeperEndsQuietly ==
    /\ [][\A r \in Runs :
            keeper'[r] # keeper[r] =>
               /\ stop_event' = stop_event
               /\ keeper'[r].pc = "k_inflight" =>
                     ~stop_event /\ now < orch[r].run_datetime
               /\ (keeper[r].pc = "k_loop" /\ (stop_event \/ now >= orch[r].run_datetime)) =>
                     keeper'[r].pc = "k_done"
               /\ keeper[r].pc = "k_inflight" => keeper'[r].pc = "k_sleep"]_vars
    /\ \A r \in Runs :
          (KeeperAlive(r) /\ (stop_event \/ now >= orch[r].run_datetime))
             ~> (keeper[r].pc = "k_done")

\* the keeper has sent a call, and has ended with the flag set before the
\* deadline
C22_Witness ==
    \E r \in Runs :
       /\ keeper[r].pc = "k_done"
       /\ "keepalive" \in hist[r].calls
       /\ stop_event
       /\ now < orch[r].run_datetime

\* C23: a run requests only candidates of rank 1 to 5, each at most three
\* times, rejected requests counted as well as failed ones: at most fifteen
\* requests in all.
C23_AtMostFiveTimesThree ==
    \A r \in Runs :
       /\ Len(Reqs(r)) <= 15
       /\ \A k \in 1..Len(Reqs(r)) : Reqs(r)[k].rank \in 1..5
       /\ \A n \in 1..5 : Cardinality({k \in 1..Len(Reqs(r)) : Reqs(r)[k].rank = n}) <= 3
       /\ orch[r].pc \in AttemptPcs => orch[r].attempt <= 3

\* fifteen requests were sent, none of them lost in transport, and the run
\* has ended although a sixth slot had passed the filter
C23_Witness ==
    \E r \in Runs :
       /\ Len(Reqs(r)) = 15
       /\ ~hist[r].neterr
       /\ orch[r].pc = "done"
       /\ hist[r].ret = "False"
       /\ Len(orch[r].sorted_times) >= 6

\* C24: with a delay above zero the run sleeps from the detection of the
\* open signal until that instant plus the delay; the sleep ends only then,
\* flag or no flag, and leads to the head of run_api_booking; while it
\* lasts no request is sent and the flag is not acted upon; without a delay
\* there is no sleep.
C24_PreDelayServedInFull ==
    [][\A r \in Runs :
          /\ now' >= now
          /\ (orch[r].pc = "open_ret" /\ orch'[r].pc = "delay_sleep") =>
                /\ IntOfDelay(orch[r].inputs.delay) > 0
                /\ orch'[r].delay_until = now + IntOfDelay(orch[r].inputs.delay)
          /\ (orch[r].pc = "open_ret" /\ orch'[r].pc = "booking") =>
                IntOfDelay(orch[r].inputs.delay) = 0
          /\ orch'[r].pc = "booking" => orch[r].pc \in {"open_ret", "delay_sleep", "booking"}
          /\ orch[r].pc = "delay_sleep" =>
                /\ orch'[r].pc \in {"delay_sleep", "booking"}
                /\ orch'[r].pc = "booking" => now >= orch[r].delay_until
                /\ hist'[r] = hist[r]]_vars

\* the flag was set after the open signal had been detected, and the sleep
\* has lasted its full time
C24_Witness ==
    \E r \in Runs :
       /\ orch[r].pc = "delay_sleep"
       /\ stop_event
       /\ ~hist[r].sawStop
       /\ orch[r].delay_until > 0
       /\ now >= orch[r].delay_until

\* the phases of start_pre_process, in the order of its text
PhaseOf(pc) ==
    CASE pc = "idle" -> 0
      [] pc \in {"login", "login_inflight", "login_ret"} -> 1
      [] pc \in {"wait_prefetch", "chk_prefetch"} -> 3
      [] pc \in {"discover", "discover_inflight"} -> 4
      [] pc \in {"wait_open", "chk_open"} -> 5
      [] pc \in {"open_loop", "open_inflight", "open_ret"} -> 6
      [] pc \in {"delay_sleep", "booking", "cand_loop", "try_loop", "res_inflight"} -> 7
      [] OTHER -> 8

\* C25: a run never goes back to an earlier phase, and goes forward by one
\* phase at a time unless it ends; the session keeper is started between
\* the login and the pre-fetch wait; discovery has been executed in every
\* run that is past it, with its queries sent before the first open-status
\* query (unless its workers saw the flag set and returned at once), also
\* when nothing passed the filter.
C25_PhasesInOrder ==
    /\ [][\A r \in Runs :
            (orch[r].pc # "idle" /\ orch'[r].pc # orch[r].pc) =>
               \/ PhaseOf(orch'[r].pc) = PhaseOf(orch[r].pc)
               \/ PhaseOf(orch'[r].pc) = 8
               \/ PhaseOf(orch'[r].pc) = PhaseOf(orch[r].pc) + 1
               \/ PhaseOf(orch[r].pc) = 1 /\ PhaseOf(orch'[r].pc) = 3 /\ keeper'[r].pc = "k_loop"]_vars
    /\ [](\A r \in Runs :
            /\ PhaseOf(orch[r].pc) \in 1..1 => keeper[r].pc = "k_idle"
            /\ PhaseOf(orch[r].pc) \in 3..7 => keeper[r].pc # "k_idle"
            /\ "open" \in hist[r].calls => ("discovery" \in hist[r].calls \/ hist[r].sawStop)
            /\ "discovery" \in hist[r].calls => "login" \in hist[r].calls)

\* nothing passed the filter, and the run has sent open-status queries
\* after its partition queries
C25_Witness ==
    \E r \in Runs :
       /\ orch[r].sorted_times = <<>>
       /\ {"discovery", "open"} \subseteq hist[r].calls
       /\ PhaseOf(orch[r].pc) = 7

\* the states in which a thread has a remote call in flight
CallPcs == {"login_inflight", "discover_inflight", "open_inflight", "res_inflight"}

\* C26: the threads of a run that the page no longer follows (it was
\* stopped) send no new remote call, whatever the user does next; and no
\* two runs have a call in flight together.
C26_StoppedRunNeverResumes ==
    [][\A r \in Runs :
          /\ (orch[r].pc # "idle" /\ run_id # r /\ run_id' # r) =>
                /\ orch'[r].pc \in CallPcs => orch[r].pc = orch'[r].pc
                /\ keeper'[r].pc = "k_inflight" => keeper[r].pc = "k_inflight"
          /\ \A q \in Runs :
                (q # r /\ orch'[r].pc \in CallPcs) => orch'[q].pc \notin CallPcs]_vars

\* C27: once the thread of the run that the page follows has ended, the
\* page leaves the running state.
C27_UiLeavesRunningState ==
    \A r \in Runs :
       (orch[r].pc = "done" /\ run_id = r) ~> (~is_running /\ run_id = 0)

\* what another completion order of the workers would have given
RankedFor(order) ==
    filter_and_sort_times(get_all_available_times(order, sel.outcome),
                          sel.start_time_str, sel.end_time_str,
                          sel.target_courses, sel.is_reverse)
KeysOf(ts) == {SlotKey(ts[k]) : k \in 1..Len(ts)}
TimesOf(ts) == [k \in 1..Len(ts) |-> ClockValue(ts[k].BK_TIME)]

\* C28 amended: for every completion order of the workers the ranked list
\* holds the same slots and the same sequence of times of day; slots of the
\* same time of day may stand in another order.
C28_SameSlotsSameTimes ==
    (Ranked /\ sel.order # <<>>) =>
       \A order \in remote.order :
          /\ KeysOf(RankedFor(order)) = KeysOf(sel.result)
          /\ TimesOf(RankedFor(order)) = TimesOf(sel.result)

\* another completion order would have put another slot first
C28_Witness ==
    /\ sel.pc = "ranked"
    /\ sel.order # <<>>
    /\ sel.outcome = AllOutcome("rows")
    /\ sel.result # <<>>
    /\ \E order \in remote.order :
          SlotKey(RankedFor(order)[1]) # SlotKey(sel.result[1])

\* C28 as claimed: the ranked list is the one that any other completion
\* order of the workers would have given, the answers of the partitions and
\* the filter configuration being the same.
C28_RankingIgnoresCompletionOrder ==
    (Ranked /\ sel.order # <<>>) =>
       \A order \in remote.order :
          filter_and_sort_times(get_all_available_times(order, sel.outcome),
                                sel.start_time_str, sel.end_time_str,
                                sel.target_courses, sel.is_reverse) = sel.result

\* C29: in a step taken with the flag set, which leaves it set, no run
\* reports an acquisition, real or of test mode.
C29_NoAcquisitionAfterCancel ==
    [][(stop_event /\ stop_event') =>
          \A r \in Runs :
             Len(hist'[r].sink) > Len(hist[r].sink) =>
                hist'[r].sink[Len(hist'[r].sink)] \notin {"UI_LOG:success", "UI_LOG:test"}]_vars

\* C30: every run that was started ends, whatever the remote service
\* answers.
C30_EveryRunTerminates ==
    \A r \in Runs : (orch[r].pc # "idle") ~> (orch[r].pc = "done")

\* a run has ended, unstopped, after open-status queries that never
\* answered 'open'
C30_Witness ==
    \E r \in Runs :
       /\ orch[r].pc = "done"
       /\ ~hist[r].sawStop
       /\ "open" \in hist[r].calls
       /\ now - orch[r].start_time > MAX_WAIT_SECONDS
       /\ hist[r].sink = <<"UI_ERROR:open">>

\* C31: for the two options of the order selectbox, the descending option
\* makes start_pre_process pass the descending flag to filter_and_sort_times,
\* so that the latest slot that passed the filter is the first candidate and
\* the first one requested, and the ascending option passes no descending
\* flag, so that the earliest one is the first.
C31_SelectedDirectionIsUsed ==
    \A r \in Runs :
       LET order == orch[r].inputs.order
           times == orch[r].sorted_times
       IN  (Consumes(r) /\ order \in {ORDER_BOX_ASC, ORDER_BOX_DESC}) =>
              /\ is_reverse_order(orch[r].inputs) <=> (order = ORDER_BOX_DESC)
              /\ \A k \in 1..Len(times) :
                    IF order = ORDER_BOX_DESC
                    THEN ClockValue(times[1].BK_TIME) >= ClockValue(times[k].BK_TIME)
                    ELSE ClockValue(times[1].BK_TIME) <= ClockValue(times[k].BK_TIME)

====
